---- MODULE Spec2Model ----
(***************************************************************************)
(* Model of tlibs2/libs/magdyn/correlation.h:                              *)
(*   MagDyn::CalcCorrelationsFromHamiltonian  (lines 78-197)               *)
(*   MagDyn::CalcIntensities                  (lines 205-261)              *)
(*                                                                         *)
(* Numbers.  t_real / t_cplx values are modelled as exact complex          *)
(* rationals <<re, im, den>> (re/den + i*im/den, den > 0, lowest terms).   *)
(* A non-finite result (x/0) is the single value NaN = <<0, 0, 0>>, which  *)
(* propagates through every operation and compares false with everything.  *)
(* Rounding of the floating-point types is not modelled.  Square roots are *)
(* taken exactly; the inputs are drawn so that every root is rational.     *)
(*                                                                         *)
(* Matrices are sequences of rows, vectors are sequences, both 1-based     *)
(* (source index i is model index i+1).                                    *)
(***************************************************************************)
EXTENDS Integers, Sequences, FiniteSets, TLC

VARIABLES
    sites,      \* the magnetic sites (GetMagneticSite), shared, read-only
    cfg,        \* m_temperature, m_bose_cutoff, m_phase_sign, m_magffact_formula, m_xtalB
    parsers,    \* expression-parser objects: the member m_magffact and each call's local copy
    args,       \* per call: H_mat, chol_mat, g_sign, Qvec, evecs
    in_bands,   \* per call: the band list as the caller handed it in
    bands,      \* per call: energies_and_correlations
    loc,        \* per call: the locals of the routine
    pc,         \* per call: position in the routine
    cerr        \* the diagnostics written to std::cerr

vars == <<sites, cfg, parsers, args, in_bands, bands, loc, pc, cerr>>

\* ------------------------------------------------------------------------
\* scalars
\* ------------------------------------------------------------------------

Abs(x) == IF x < 0 THEN -x ELSE x

RECURSIVE GCD(_, _)
GCD(a, b) == IF b = 0 THEN a ELSE GCD(b, a % b)

NaN == <<0, 0, 0>>

IsNaN(z) == z[3] = 0

\* lowest terms, positive denominator
CNorm(r, i, d) ==
    IF d = 0 THEN NaN
    ELSE LET g == GCD(GCD(Abs(r), Abs(i)), Abs(d))
             s == IF d < 0 THEN -1 ELSE 1
         IN  <<(s * r) \div g, (s * i) \div g, (s * d) \div g>>

CInt(n) == <<n, 0, 1>>
CZero == CInt(0)
COne == CInt(1)
CImag == <<0, 1, 1>>

CAdd(a, b) ==
    IF IsNaN(a) \/ IsNaN(b) THEN NaN
    ELSE IF a[3] = 1 /\ b[3] = 1 THEN <<a[1] + b[1], a[2] + b[2], 1>>
    ELSE CNorm(a[1] * b[3] + b[1] * a[3], a[2] * b[3] + b[2] * a[3], a[3] * b[3])

CNeg(a) == <<-a[1], -a[2], a[3]>>

CSub(a, b) == CAdd(a, CNeg(b))

CMul(a, b) ==
    IF IsNaN(a) \/ IsNaN(b) THEN NaN
    ELSE IF a[3] = 1 /\ b[3] = 1
         THEN <<a[1] * b[1] - a[2] * b[2], a[1] * b[2] + a[2] * b[1], 1>>
    ELSE CNorm(a[1] * b[1] - a[2] * b[2], a[1] * b[2] + a[2] * b[1], a[3] * b[3])

CConj(a) == <<a[1], -a[2], a[3]>>

\* 1/b; a division by zero is non-finite
CInv(b) ==
    IF IsNaN(b) THEN NaN
    ELSE CNorm(b[3] * b[1], -(b[3] * b[2]), b[1] * b[1] + b[2] * b[2])

CDiv(a, b) == CMul(a, CInv(b))

\* .real()
CRe(a) == CNorm(a[1], 0, a[3])

\* std::abs of a real
RAbs(a) == <<Abs(a[1]), 0, a[3]>>

\* comparisons of reals; any comparison with a NaN is false
RLeq(a, b) == ~IsNaN(a) /\ ~IsNaN(b) /\ a[1] * b[3] <= b[1] * a[3]
RLess(a, b) == ~IsNaN(a) /\ ~IsNaN(b) /\ a[1] * b[3] < b[1] * a[3]

\* ------------------------------------------------------------------------
\* vectors and matrices
\* ------------------------------------------------------------------------

RECURSIVE SumTo(_, _)
\* f[1] + ... + f[n]
SumTo(f, n) == IF n = 0 THEN CZero ELSE CAdd(SumTo(f, n - 1), f[n])

\* F(v) with v evaluated once, before F is applied
Let(v, F(_)) == CHOOSE r \in {F(x) : x \in {v}} : TRUE

RECURSIVE MkSeq(_, _)
\* <<F(1), ..., F(n)>>, every element evaluated once
MkSeq(F(_), n) == IF n = 0 THEN <<>> ELSE Append(MkSeq(F, n - 1), F(n))

\* the n x m matrix with entries F(i, j)
MkMat(F(_, _), n, m) == MkSeq(LAMBDA i : MkSeq(LAMBDA j : F(i, j), m), n)

Size1(A) == Len(A)
Size2(A) == IF Len(A) = 0 THEN 0 ELSE Len(A[1])

MatMul(A, B) ==
    MkMat(LAMBDA i, j : SumTo([k \in 1..Size2(A) |-> CMul(A[i][k], B[k][j])], Size2(A)),
          Size1(A), Size2(B))

MatVec(A, v) ==
    MkSeq(LAMBDA i : SumTo([k \in 1..Len(v) |-> CMul(A[i][k], v[k])], Len(v)), Size1(A))

MatScale(A, c) == MkMat(LAMBDA i, j : CMul(A[i][j], c), Size1(A), Size2(A))

Herm(A) == MkMat(LAMBDA i, j : CConj(A[j][i]), Size2(A), Size1(A))

Trace(A) == SumTo([k \in 1..Size1(A) |-> A[k][k]], Size1(A))

ZeroMat(n, m) == MkMat(LAMBDA i, j : CZero, n, m)

UnitMat(n) == MkMat(LAMBDA i, j : IF i = j THEN COne ELSE CZero, n, n)

\* <v, w> of real vectors
Inner(v, w) == SumTo([k \in 1..Len(v) |-> CMul(v[k], w[k])], Len(v))

\* ------------------------------------------------------------------------
\* library routines called by the two methods (tlibs2 maths/expr headers)
\* ------------------------------------------------------------------------

\* exact root of a non-negative integer that is a perfect square
ISqrt(n) == CHOOSE r \in 0..n : r * r = n

\* tl2::norm of a real vector whose length is rational
VecNorm(v) ==
    LET q == Inner(v, v)
    IN  CNorm(ISqrt(q[1]), 0, ISqrt(q[3]))

\* tl2::bose: occupation factor with detailed balance; exp(x) - 1 is
\* replaced by its first-order term x (k_B = 1), which keeps the sign
\* structure: n for energy gain (E < 0), n + 1 for energy loss (E >= 0)
Bose(E, T) ==
    LET n == CDiv(T, RAbs(E))
    IN  IF RLeq(CZero, E) THEN CAdd(n, COne) ELSE n

\* tl2::bose_cutoff: energies below the cutoff are evaluated at the cutoff
BoseCutoff(E, T, E_cutoff) ==
    LET cut == RAbs(E_cutoff)
    IN  IF RLess(RAbs(E), cut)
        THEN Bose(IF RLess(E, CZero) THEN CNeg(cut) ELSE cut, T)
        ELSE Bose(E, T)

\* tl2::ExprParser: an expression and the value registered for variable Q
NoParser == [expr |-> "", Q |-> CZero]

\* the form-factor expressions of the model
Formulas == {"", "Q", "("}

\* ExprParser::register_var("Q", val)
RegisterVar(p, val) == [p EXCEPT !.Q = val]

\* ExprParser::eval_noexcept: a malformed expression yields the fallback 0
EvalNoexcept(p) ==
    IF p.expr = "Q" THEN p.Q ELSE CZero

\* tl2::ortho_projector(vec, false) = 1 - |vec><vec| / <vec|vec>
OrthoProjector(q) ==
    MkMat(LAMBDA i, j : CSub(IF i = j THEN COne ELSE CZero,
                             CDiv(CMul(q[i], q[j]), Inner(q, q))), 3, 3)

\* std::sqrt of a complex number: the principal root (exact)
CSqrt(z) ==
    IF IsNaN(z) THEN NaN
    ELSE LET a == z[1] * z[3]
             b == z[2] * z[3]
             R == Abs(a) + Abs(b)
             w == CHOOSE w \in (0..R) \X (-R..R) :
                      /\ w[1] * w[1] - w[2] * w[2] = a
                      /\ 2 * w[1] * w[2] = b
                      /\ (w[1] > 0 \/ w[2] >= 0)
         IN  CNorm(w[1], w[2], z[3])

\* whether the root of z is rational
HasSqrt(z) ==
    LET a == z[1] * z[3]
        b == z[2] * z[3]
        R == Abs(a) + Abs(b)
    IN  \E w \in (0..R) \X (-R..R) :
            w[1] * w[1] - w[2] * w[2] = a /\ 2 * w[1] * w[2] = b

\* std::sqrt of a non-negative real that is a perfect square
RSqrt(x) == CNorm(ISqrt(x[1]), 0, ISqrt(x[3]))

\* std::exp(-sign * i * 2 pi * t) for t a multiple of 1/4
ExpPhase(sign, t) ==
    LET k == (-(sign[1] * t[1] * (4 \div t[3]))) % 4
    IN  CASE k = 0 -> COne
          [] k = 1 -> CImag
          [] k = 2 -> CInt(-1)
          [] k = 3 -> CNeg(CImag)

RECURSIVE SortedPerms(_, _, _)
\* the orders of the indices in rem, after index prev, in which every index
\* is followed by one it is in relation rel with
SortedPerms(rem, prev, rel) ==
    IF rem = {} THEN {<<>>}
    ELSE UNION {{<<x>> \o p : p \in SortedPerms(rem \ {x}, x, rel)} :
                    x \in {x \in rem : prev = 0 \/ <<prev, x>> \in rel}}

\* tl2::get_perm(num_elems, comp): the indices 1..num_elems sorted by comp;
\* the order of indices that compare true both ways is not determined
GetPerm(num_elems, comp(_, _)) ==
    SortedPerms(1..num_elems, 0,
                {ij \in (1..num_elems) \X (1..num_elems) : comp(ij[1], ij[2])})

\* tl2::reorder(vec, perm)
Reorder(vec, perm) == MkSeq(LAMBDA i : vec[perm[i]], Len(perm))

\* tl2::create<t_mat>(vecs): the vectors are the columns
CreateFromCols(vecs) ==
    IF Len(vecs) = 0 THEN <<>>
    ELSE MkMat(LAMBDA i, j : vecs[j][i], Len(vecs[1]), Len(vecs))

\* mat without row r and column c
SubMat(A, r, c) ==
    MkMat(LAMBDA i, j : A[IF i < r THEN i ELSE i + 1][IF j < c THEN j ELSE j + 1],
          Size1(A) - 1, Size1(A) - 1)

RECURSIVE Det(_)
\* tl2::det, expanded along the first column
Det(A) ==
    IF Size1(A) = 0 THEN COne
    ELSE IF Size1(A) = 1 THEN A[1][1]
    ELSE SumTo([i \in 1..Size1(A) |->
                   IF A[i][1] = CZero THEN CZero
                   ELSE CMul(IF i % 2 = 1 THEN A[i][1] ELSE CNeg(A[i][1]),
                             Let(SubMat(A, i, 1), LAMBDA B : Det(B)))], Size1(A))

\* the inverse of a regular matrix: adjugate over determinant
Inverse(A) ==
    Let(Det(A), LAMBDA d :
        MkMat(LAMBDA i, j :
                  CDiv(Let(SubMat(A, j, i), LAMBDA B :
                           IF (i + j) % 2 = 0 THEN Det(B) ELSE CNeg(Det(B))), d),
              Size1(A), Size1(A)))

\* what tl2::inv may hand back for a singular matrix
GarbageInverses(n) == {ZeroMat(n, n), UnitMat(n)}

\* tl2::inv(mat): the pairs <<inverse, ok>> it can return
Inv(mat) ==
    IF Det(mat) # CZero THEN {<<Inverse(mat), TRUE>>}
    ELSE {<<G, FALSE>> : G \in GarbageInverses(Size1(mat))}

\* ------------------------------------------------------------------------
\* state of a call
\* ------------------------------------------------------------------------

Calls == {1, 2}

\* EnergyAndWeight with its default member initialisers
DefaultBand ==
    [E |-> CZero, S |-> <<>>, S_perp |-> <<>>, S_sum |-> CZero,
     S_perp_sum |-> CZero, weight_full |-> CZero, weight |-> CZero]

NoArgs == [H_mat |-> <<>>, chol_mat |-> <<>>, g_sign |-> <<>>,
           Qvec |-> <<CZero, CZero, CZero>>, evecs |-> <<>>]

NoLocals ==
    [sorting |-> <<>>, evec_mat |-> <<>>, energy_mat |-> <<>>, E_sqrt |-> <<>>,
     chol_inv |-> <<>>, inv_ok |-> TRUE, trafo |-> <<>>,
     magffact |-> "none", bi |-> 0, task |-> "none"]

\* the parser object a call works on: its own copy or the member
Magffact(c) ==
    IF loc[c].magffact = "member" THEN parsers.member ELSE parsers.local[c]

SetMagffact(c, p) ==
    IF loc[c].magffact = "member"
    THEN [parsers EXCEPT !.member = p]
    ELSE [parsers EXCEPT !.local[c] = p]

\* where a call goes when the routine it runs returns
AfterCorr(c) == IF loc[c].task = "both" THEN "int_begin" ELSE "done"

\* ------------------------------------------------------------------------
\* CalcCorrelationsFromHamiltonian
\* ------------------------------------------------------------------------

\* GetMagneticSitesCount()
N == Len(sites)

\* the comparator turned round: ascending energies
EnergyLeq(bl, idx1, idx2) == RLeq(bl[idx1].E, bl[idx2].E)

\* lines 91-95: the comparator of the energy sort
EnergyGeq(bl, idx1, idx2) == RLeq(bl[idx2].E, bl[idx1].E)

\* line 101: energy_mat = evec_mat_herm * H_mat * evec_mat
EnergyMat(evec_mat, H_mat) == MatMul(MatMul(Herm(evec_mat), H_mat), evec_mat)

\* lines 102-104: g_sign * energy_mat with the root taken of its diagonal
ESqrt(g_sign, energy_mat) ==
    LET A == MatMul(g_sign, energy_mat)
    IN  MkMat(LAMBDA i, j : IF i = j THEN CSqrt(A[i][i]) ELSE A[i][j],
              Size1(A), Size2(A))

\* the band energies taken as absolute values
RecreateBandsAbs(energy_mat) ==
    MkSeq(LAMBDA i : [DefaultBand EXCEPT !.E = RAbs(CRe(energy_mat[i][i])),
                                          !.S = ZeroMat(3, 3),
                                          !.S_perp = ZeroMat(3, 3)],
          Size1(energy_mat))

\* lines 107-118: the band list cleared and created anew
RecreateBands(energy_mat) ==
    MkSeq(LAMBDA i : [DefaultBand EXCEPT !.E = CRe(energy_mat[i][i]),
                                          !.S = ZeroMat(3, 3),
                                          !.S_perp = ZeroMat(3, 3)],
          Size1(energy_mat))

\* lines 88-118 for a sorting the energy sort returned
CorrSetUp(c, sorting) ==
    LET evec_mat == CreateFromCols(Reorder(args[c].evecs, sorting))
        energy_mat == EnergyMat(evec_mat, args[c].H_mat)
    IN  /\ loc' = [loc EXCEPT ![c].sorting = sorting,
                              ![c].evec_mat = evec_mat,
                              ![c].energy_mat = energy_mat,
                              ![c].E_sqrt = ESqrt(args[c].g_sign, energy_mat)]
        /\ bands' = [bands EXCEPT ![c] = RecreateBands(energy_mat)]
        /\ pc' = [pc EXCEPT ![c] = "corr_inv"]

\* the band list cleared before the site count is tested
CorrBeginClearFirst(c) ==
    /\ pc[c] = "corr_begin"
    /\ IF N = 0
       THEN /\ bands' = [bands EXCEPT ![c] = <<>>]
            /\ pc' = [pc EXCEPT ![c] = AfterCorr(c)]
            /\ UNCHANGED loc
       ELSE \E sorting \in GetPerm(Len(bands[c]),
                                   LAMBDA i, j : EnergyGeq(bands[c], i, j)) :
                CorrSetUp(c, sorting)
    /\ UNCHANGED <<sites, cfg, parsers, args, in_bands, cerr>>

\* lines 84-118: return for no sites; else sort, energies, new band list
CorrBegin(c) ==
    /\ pc[c] = "corr_begin"
    /\ IF N = 0
       THEN /\ pc' = [pc EXCEPT ![c] = AfterCorr(c)]
            /\ UNCHANGED <<bands, loc>>
       ELSE \E sorting \in GetPerm(Len(bands[c]),
                                   LAMBDA i, j : EnergyGeq(bands[c], i, j)) :
                CorrSetUp(c, sorting)
    /\ UNCHANGED <<sites, cfg, parsers, args, in_bands, cerr>>

\* line 129: trafo = chol_inv * evec_mat * E_sqrt
Trafo(chol_inv, evec_mat, E_sqrt) == MatMul(MatMul(chol_inv, evec_mat), E_sqrt)

\* lines 124-125: the text written to std::cerr
InversionWarning(Qvec) == [text |-> "Magdyn warning: Inversion failed", Q |-> Qvec]

\* a failed inversion ends the routine
CorrInvAbort(c) ==
    /\ pc[c] = "corr_inv"
    /\ \E r \in Inv(args[c].chol_mat) :
        /\ loc' = [loc EXCEPT ![c].chol_inv = r[1], ![c].inv_ok = r[2],
                              ![c].trafo = IF r[2]
                                  THEN Trafo(r[1], loc[c].evec_mat, loc[c].E_sqrt)
                                  ELSE <<>>]
        /\ cerr' = IF r[2] THEN cerr ELSE Append(cerr, InversionWarning(args[c].Qvec))
        /\ pc' = [pc EXCEPT ![c] = IF r[2] THEN "corr_acc" ELSE AfterCorr(c)]
    /\ UNCHANGED <<sites, cfg, parsers, args, in_bands, bands>>

\* lines 120-130: inversion, warning on failure, the transformation
CorrInv(c) ==
    /\ pc[c] = "corr_inv"
    /\ \E r \in Inv(args[c].chol_mat) :
        /\ loc' = [loc EXCEPT ![c].chol_inv = r[1], ![c].inv_ok = r[2],
                              ![c].trafo = Trafo(r[1], loc[c].evec_mat, loc[c].E_sqrt)]
        /\ cerr' = IF r[2] THEN cerr ELSE Append(cerr, InversionWarning(args[c].Qvec))
    /\ pc' = [pc EXCEPT ![c] = "corr_acc"]
    /\ UNCHANGED <<sites, cfg, parsers, args, in_bands, bands>>

\* lines 167-169: the pre-factors S_mag * phase of a pair of sites
PreFactor(s_i, s_j, Qvec) ==
    LET S_mag == RSqrt(CMul(s_i.spin_mag_calc, s_j.spin_mag_calc))
        d == MkSeq(LAMBDA k : CSub(s_j.pos_calc[k], s_i.pos_calc[k]), 3)
        phase == ExpPhase(cfg.m_phase_sign, Inner(d, Qvec))
    IN  CMul(phase, S_mag)

\* the off-diagonal blocks in each other's place
CouplingMatrixSwapped(x, y, Qvec) ==
    MkMat(LAMBDA a, b :
              LET i == IF a <= N THEN a ELSE a - N
                  j == IF b <= N THEN b ELSE b - N
                  s_i == sites[i]
                  s_j == sites[j]
                  l == IF b <= N THEN s_i.ge_trafo_plane_calc[x]
                                 ELSE s_i.ge_trafo_plane_conj_calc[x]
                  r == IF a <= N THEN s_j.ge_trafo_plane_conj_calc[y]
                                 ELSE s_j.ge_trafo_plane_calc[y]
              IN  CMul(CMul(PreFactor(s_i, s_j, Qvec), l), r),
          2 * N, 2 * N)

\* lines 148-181: M of one pair of components, from its four N x N blocks
\* M00 (upper left), M0N (upper right), MN0 (lower left), MNN (lower right)
CouplingMatrix(x, y, Qvec) ==
    MkMat(LAMBDA a, b :
              LET i == IF a <= N THEN a ELSE a - N
                  j == IF b <= N THEN b ELSE b - N
                  s_i == sites[i]
                  s_j == sites[j]
                  l == IF a <= N THEN s_i.ge_trafo_plane_calc[x]
                                 ELSE s_i.ge_trafo_plane_conj_calc[x]
                  r == IF b <= N THEN s_j.ge_trafo_plane_conj_calc[y]
                                 ELSE s_j.ge_trafo_plane_calc[y]
              IN  CMul(CMul(PreFactor(s_i, s_j, Qvec), l), r),
          2 * N, 2 * N)

\* normalised by the number of sites instead of the number of modes
BandContributionPerSite(M_trafo, M, i) ==
    CDiv(M_trafo[i][i], CInt(Size1(M) \div 2))

\* line 194: M_trafo(i, i) / t_real(M.size1())
BandContribution(M_trafo, M, i) == CDiv(M_trafo[i][i], CInt(Size1(M)))

\* lines 183-195 for one pair of components: every band's S(x, y) raised
AccumulatePair(bl, trafo, x, y, Qvec) ==
    LET M == CouplingMatrix(x, y, Qvec)
        M_trafo == MatMul(MatMul(Herm(trafo), M), trafo)
    IN  MkSeq(LAMBDA i : [bl[i] EXCEPT !.S[x][y] =
                              CAdd(@, BandContribution(M_trafo, M, i))],
              Len(bl))

RECURSIVE AccumulateFrom(_, _, _, _)
\* lines 144-196: the pairs (x_idx, y_idx) from number p on, row by row
AccumulateFrom(bl, trafo, p, Qvec) ==
    IF p = 9 THEN bl
    ELSE Let(AccumulatePair(bl, trafo, (p \div 3) + 1, (p % 3) + 1, Qvec),
             LAMBDA next : AccumulateFrom(next, trafo, p + 1, Qvec))

\* lines 143-197: the correlation functions of every band; return
CorrAccumulate(c) ==
    /\ pc[c] = "corr_acc"
    /\ bands' = [bands EXCEPT ![c] =
           AccumulateFrom(bands[c], loc[c].trafo, 0, args[c].Qvec)]
    /\ pc' = [pc EXCEPT ![c] = AfterCorr(c)]
    /\ UNCHANGED <<sites, cfg, parsers, args, in_bands, loc, cerr>>

CalcCorrelationsFromHamiltonian(c) ==
    \/ CorrBegin(c)
    \/ CorrInv(c)
    \/ CorrAccumulate(c)

\* ------------------------------------------------------------------------
\* CalcIntensities
\* ------------------------------------------------------------------------

\* alias instead of copy: tl2::ExprParser<t_cplx>& magffact = m_magffact
IntBeginAlias(c) ==
    /\ pc[c] = "int_begin"
    /\ loc' = [loc EXCEPT ![c].magffact = "member", ![c].bi = 1]
    /\ pc' = [pc EXCEPT ![c] = IF Len(bands[c]) = 0 THEN "done" ELSE "int_bose"]
    /\ UNCHANGED <<sites, cfg, parsers, args, in_bands, bands, cerr>>

\* line 210: the local copy of the parser; entry of the loop over the bands
IntBegin(c) ==
    /\ pc[c] = "int_begin"
    /\ parsers' = [parsers EXCEPT !.local[c] = parsers.member]
    /\ loc' = [loc EXCEPT ![c].magffact = "local", ![c].bi = 1]
    /\ pc' = [pc EXCEPT ![c] = IF Len(bands[c]) = 0 THEN "done" ELSE "int_bose"]
    /\ UNCHANGED <<sites, cfg, args, in_bands, bands, cerr>>

\* the Bose factor applied whatever the temperature
IntBoseAlways(c) ==
    /\ pc[c] = "int_bose"
    /\ LET b == bands[c][loc[c].bi]
       IN  bands' = [bands EXCEPT ![c][loc[c].bi].S =
               MatScale(b.S, BoseCutoff(b.E, cfg.m_temperature, cfg.m_bose_cutoff))]
    /\ pc' = [pc EXCEPT ![c] =
           IF cfg.m_magffact_formula # "" THEN "int_register" ELSE "int_project"]
    /\ UNCHANGED <<sites, cfg, parsers, args, in_bands, loc, cerr>>

\* lines 214-219: Bose factor, and the test for a form factor
IntBose(c) ==
    /\ pc[c] = "int_bose"
    /\ LET b == bands[c][loc[c].bi]
       IN  bands' = [bands EXCEPT ![c][loc[c].bi].S =
               IF RLeq(CZero, cfg.m_temperature)
               THEN MatScale(b.S, BoseCutoff(b.E, cfg.m_temperature, cfg.m_bose_cutoff))
               ELSE b.S]
    /\ pc' = [pc EXCEPT ![c] =
           IF cfg.m_magffact_formula # "" THEN "int_register" ELSE "int_project"]
    /\ UNCHANGED <<sites, cfg, parsers, args, in_bands, loc, cerr>>

\* lines 221-226: |Q| in inverse Angstroms, registered as variable Q
IntRegister(c) ==
    /\ pc[c] = "int_register"
    /\ LET Q_invA == MatVec(cfg.m_xtalB, args[c].Qvec)
           Q_abs == VecNorm(Q_invA)
       IN  parsers' = SetMagffact(c, RegisterVar(Magffact(c), Q_abs))
    /\ pc' = [pc EXCEPT ![c] = "int_eval"]
    /\ UNCHANGED <<sites, cfg, args, in_bands, bands, loc, cerr>>

\* lines 227-228: evaluate the form factor and apply it
IntEval(c) ==
    /\ pc[c] = "int_eval"
    /\ LET ffact == CRe(EvalNoexcept(Magffact(c)))
       IN  bands' = [bands EXCEPT ![c][loc[c].bi].S = MatScale(@, ffact)]
    /\ pc' = [pc EXCEPT ![c] = "int_project"]
    /\ UNCHANGED <<sites, cfg, parsers, args, in_bands, loc, cerr>>

\* the projector applied from the left only
ProjectLeft(P, S) == MatMul(P, S)

\* line 234: proj_neutron * S * proj_neutron
Project(P, S) == MatMul(MatMul(P, S), P)

\* the two weights taken from the wrong traces
BandProjectedSwapped(b, P) ==
    LET S_perp == Project(P, b.S)
        S_sum == Trace(b.S)
        S_perp_sum == Trace(S_perp)
    IN  [b EXCEPT !.S_perp = S_perp,
                  !.S_sum = S_sum,
                  !.S_perp_sum = S_perp_sum,
                  !.weight_full = RAbs(CRe(S_perp_sum)),
                  !.weight = RAbs(CRe(S_sum))]

\* lines 234-240: the band after projection, with its sums and weights
BandProjected(b, P) ==
    LET S_perp == Project(P, b.S)
        S_sum == Trace(b.S)
        S_perp_sum == Trace(S_perp)
    IN  [b EXCEPT !.S_perp = S_perp,
                  !.S_sum = S_sum,
                  !.S_perp_sum = S_perp_sum,
                  !.weight_full = RAbs(CRe(S_sum)),
                  !.weight = RAbs(CRe(S_perp_sum))]

\* lines 231-240: projection and weights; next band or return
IntProject(c) ==
    /\ pc[c] = "int_project"
    /\ LET proj_neutron == OrthoProjector(args[c].Qvec)
       IN  bands' = [bands EXCEPT ![c][loc[c].bi] = BandProjected(@, proj_neutron)]
    /\ loc' = [loc EXCEPT ![c].bi = @ + 1]
    /\ pc' = [pc EXCEPT ![c] =
           IF loc[c].bi < Len(bands[c]) THEN "int_bose" ELSE "done"]
    /\ UNCHANGED <<sites, cfg, parsers, args, in_bands, cerr>>

CalcIntensities(c) ==
    \/ IntBegin(c)
    \/ IntBose(c)
    \/ IntRegister(c)
    \/ IntEval(c)
    \/ IntProject(c)

\* ------------------------------------------------------------------------
\* inputs of a CalcIntensities call
\* ------------------------------------------------------------------------

\* largest absolute value of the first diagonal entry of an input tensor
MaxS == 1

\* number of bands of an input band list
MaxBands == 2

IntVec(a, b, c) == <<CInt(a), CInt(b), CInt(c)>>

\* momentum transfers of rational length, the zero vector among them
QSet == {IntVec(0, 0, 0), IntVec(0, 1, 0), IntVec(1, 2, 2), IntVec(3, 0, 4)}

DiagTensor(a, b, c) ==
    <<IntVec(a, 0, 0), IntVec(0, b, 0), IntVec(0, 0, c)>>

\* |u><u|
OuterTensor(u) == MkMat(LAMBDA i, j : CMul(u[i], CConj(u[j])), 3, 3)

UVecs == {<<COne, CImag, CZero>>, <<COne, COne, CNeg(CImag)>>, <<CZero, CInt(2), CImag>>}

\* hermitian with off-diagonal entries, indefinite
OffDiagTensor == <<<<CZero, CImag, COne>>, <<CNeg(CImag), CZero, CZero>>, <<COne, CZero, CZero>>>>

\* not hermitian
SkewTensor == <<<<COne, CInt(2), CZero>>, <<CZero, CZero, CImag>>, <<CZero, CZero, COne>>>>

InputTensors ==
    {DiagTensor(a, b, c) : a \in -MaxS..MaxS, b \in {-1, 0, 1}, c \in {0, 1}}
    \cup {OuterTensor(u) : u \in UVecs}
    \cup {OffDiagTensor, SkewTensor}

InputEnergies == {CInt(-1), CInt(2)}

BandOf(E, S) == [DefaultBand EXCEPT !.E = E, !.S = S, !.S_perp = ZeroMat(3, 3)]

\* the further bands of an input band list
ExtraBand(k) ==
    BandOf(CInt(k - 2), IF k % 2 = 0 THEN OuterTensor(<<COne, CImag, CInt(k)>>)
                                     ELSE DiagTensor(k, -1, 0))

IntBandLists ==
    {[k \in 1..n |-> IF k = 1 THEN BandOf(E, S) ELSE ExtraBand(k)] :
        n \in 1..MaxBands, E \in InputEnergies, S \in InputTensors}

Configs ==
    [m_temperature : {CInt(-1), CZero, CInt(1)},
     m_bose_cutoff : {<<1, 0, 2>>},
     m_phase_sign : {CInt(1)},
     m_magffact_formula : Formulas,
     m_xtalB : {UnitMat(3)}]

\* the member parser as the configuration leaves it
ParsersOf(config) ==
    [member |-> [expr |-> config.m_magffact_formula, Q |-> CZero],
     local |-> [c \in Calls |-> NoParser]]

InitInt ==
    /\ sites = <<>>
    /\ cfg \in Configs
    /\ parsers = ParsersOf(cfg)
    /\ \E q \in QSet : args = [c \in Calls |-> [NoArgs EXCEPT !.Qvec = q]]
    /\ \E bl \in IntBandLists : in_bands = [c \in Calls |-> IF c = 1 THEN bl ELSE <<>>]
    /\ bands = in_bands
    /\ loc = [c \in Calls |-> [NoLocals EXCEPT !.task = IF c = 1 THEN "int" ELSE "none"]]
    /\ pc = [c \in Calls |-> IF c = 1 THEN "int_begin" ELSE "idle"]
    /\ cerr = <<>>

NextInt == \E c \in Calls : CalcIntensities(c)

SpecInt == InitInt /\ [][NextInt]_vars

\* ------------------------------------------------------------------------
\* inputs of a CalcCorrelationsFromHamiltonian call
\* ------------------------------------------------------------------------

\* largest number of magnetic sites
MaxN == 2

\* site k of a lattice: "ferro" has equal sites a quarter cell apart along x,
\* "canted" alternates the spin magnitude and the local frame
SiteAt(kind, k) ==
    LET alt == kind = "canted" /\ k % 2 = 1
        u == IF alt THEN <<CZero, COne, CNeg(CImag)>> ELSE <<COne, CImag, CZero>>
    IN  [pos_calc |-> <<CNorm(k - 1, 0, 4), CNorm(IF alt THEN 1 ELSE 0, 0, 2), CZero>>,
         spin_mag_calc |-> IF alt THEN CInt(4) ELSE COne,
         ge_trafo_plane_calc |-> u,
         ge_trafo_plane_conj_calc |-> MkSeq(LAMBDA i : CConj(u[i]), 3)]

SitesOf(kind, n) == MkSeq(LAMBDA k : SiteAt(kind, k), n)

\* lattice, momentum transfer and phase sign of a query
Geometries ==
    <<[kind |-> "ferro", Q |-> IntVec(0, 0, 0), sign |-> CInt(1)],
      [kind |-> "canted", Q |-> IntVec(1, 0, 0), sign |-> CInt(1)],
      [kind |-> "canted", Q |-> IntVec(1, 2, 0), sign |-> CInt(-1)]>>

\* the energies of the first and the last mode
EVals == <<-1, 0, 1>>

\* the energy of a mode between the first and the last
MidVal(k) == IF k % 2 = 0 THEN (k + 2) * (k + 2) ELSE -((k + 2) * (k + 2))

\* hermitian H with diagonal a, MidVal.., b; coupled: first and last mode mix
HMat(n, a, b, coupled) ==
    MkMat(LAMBDA i, j :
              IF i = j THEN CInt(IF i = 1 THEN a ELSE IF i = n THEN b ELSE MidVal(i))
              ELSE IF coupled /\ i = 1 /\ j = n THEN CImag
              ELSE IF coupled /\ i = n /\ j = 1 THEN CNeg(CImag)
              ELSE CZero,
          n, n)

UnitVec(n, k) == MkSeq(LAMBDA i : IF i = k THEN COne ELSE CZero, n)

\* eigenvector sets: the unit vectors; the unit vectors in reverse order times
\* i; and a set that is not orthonormal (its first vector is e_1 + e_n)
EvecsOf(kind, n) ==
    CASE kind = "unit" -> MkSeq(LAMBDA k : UnitVec(n, k), n)
      [] kind = "reverse" ->
            MkSeq(LAMBDA k : MkSeq(LAMBDA i : IF i = n + 1 - k THEN CImag ELSE CZero, n), n)
      [] kind = "skew" ->
            MkSeq(LAMBDA k : MkSeq(LAMBDA i : IF i = k \/ (k = 1 /\ i = n)
                                               THEN COne ELSE CZero, n), n)

EvecKinds == <<"unit", "reverse", "skew">>

\* sign matrices: the metric diag(1.., -1..) and the unit matrix
GSign(kind, n) ==
    MkMat(LAMBDA i, j : IF i # j THEN CZero
                        ELSE IF kind = "metric" /\ 2 * i > n THEN CInt(-1) ELSE COne,
          n, n)

GKinds == <<"metric", "unit">>

\* Cholesky factors: the unit matrix; an upper triangular one whose inverse
\* has fractions; a singular one
CholMat(kind, n) ==
    MkMat(LAMBDA i, j :
              CASE kind = "unit" -> IF i = j THEN COne ELSE CZero
                [] kind = "upper" -> IF i = j THEN (IF i = 1 THEN CInt(2) ELSE COne)
                                     ELSE IF i = 1 /\ j = 2 THEN COne ELSE CZero
                [] kind = "singular" -> IF i = j /\ i > 1 THEN COne ELSE CZero,
          n, n)

CholKinds == <<"unit", "upper", "singular">>

\* a tensor left over from an earlier query
StaleTensor == <<IntVec(1, 2, 3), IntVec(4, 5, 6), IntVec(7, 8, 9)>>

\* the band list the caller hands in: one band per eigenvector, with the
\* eigenvalue as energy ("eigen"), or with energies 0, 0, 1, 2, .. and
\* tensors of an earlier query ("stale")
CallerBands(kind, H_mat, evecs) ==
    MkSeq(LAMBDA k :
              IF kind = "eigen"
              THEN [DefaultBand EXCEPT !.E =
                       CRe(EnergyMat(CreateFromCols(<<evecs[k]>>), H_mat)[1][1])]
              ELSE [DefaultBand EXCEPT !.E = CInt(IF k = 1 THEN 0 ELSE k - 2),
                                       !.S = StaleTensor, !.S_perp = StaleTensor,
                                       !.weight = COne],
          Len(evecs))

BandKinds == <<"eigen", "stale">>

\* band lists handed in when there are no sites
OrphanBandLists ==
    {<<>>, CallerBands("stale", <<>>, <<UnitVec(1, 1)>>),
     CallerBands("stale", <<>>, <<UnitVec(2, 1), UnitVec(2, 2)>>)}

CorrConfig(sign) ==
    [m_temperature |-> CInt(-1), m_bose_cutoff |-> <<1, 0, 2>>, m_phase_sign |-> sign,
     m_magffact_formula |-> "", m_xtalB |-> UnitMat(3)]

\* every root the routine takes is rational
RootsExact(H_mat, evecs) ==
    \A k \in 1..Len(evecs) :
        HasSqrt(EnergyMat(CreateFromCols(<<evecs[k]>>), H_mat)[1][1])

\* the choices that make up a query
Choices ==
    [ea : DOMAIN EVals, eb : DOMAIN EVals, coupled : BOOLEAN, ck : DOMAIN CholKinds,
     gk : DOMAIN GKinds, vk : DOMAIN EvecKinds, bk : DOMAIN BandKinds,
     geo : DOMAIN Geometries]

\* sums over the choices, each taken modulo 3 to thin the combinations out
SampleSum(k, p) ==
    CASE k = 1 -> p.ea + p.ck + p.vk + p.geo
      [] k = 2 -> p.eb + p.ck + 2 * p.vk + p.gk + p.bk + (IF p.coupled THEN 1 ELSE 0)
      [] OTHER -> p.ea + 2 * p.eb + p.geo + p.gk

\* the combinations of choices tried: a third for one site, a ninth for two,
\* a twenty-seventh for more, spread evenly over the choices
Sampled(n, p) == \A k \in 1..n : SampleSum(k, p) % 3 = 0

CorrArgs(n, p) ==
    [H_mat |-> HMat(2 * n, EVals[p.ea], EVals[p.eb], p.coupled),
     chol_mat |-> CholMat(CholKinds[p.ck], 2 * n),
     g_sign |-> GSign(GKinds[p.gk], 2 * n),
     Qvec |-> Geometries[p.geo].Q,
     evecs |-> EvecsOf(EvecKinds[p.vk], 2 * n)]

\* a query on n >= 1 sites
InitQuery(n, p) ==
    LET a == CorrArgs(n, p)
    IN  /\ RootsExact(a.H_mat, a.evecs)
        /\ sites = SitesOf(Geometries[p.geo].kind, n)
        /\ cfg = CorrConfig(Geometries[p.geo].sign)
        /\ args = [c \in Calls |-> IF c = 1 THEN a ELSE NoArgs]
        /\ in_bands = [c \in Calls |->
               IF c = 1 THEN CallerBands(BandKinds[p.bk], a.H_mat, a.evecs) ELSE <<>>]

\* a query on a model without sites
InitOrphan ==
    /\ sites = <<>>
    /\ \E g \in DOMAIN Geometries :
        /\ cfg = CorrConfig(Geometries[g].sign)
        /\ args = [c \in Calls |-> [NoArgs EXCEPT !.Qvec = Geometries[g].Q]]
    /\ \E bl \in OrphanBandLists : in_bands = [c \in Calls |-> IF c = 1 THEN bl ELSE <<>>]

InitCorr ==
    /\ \/ InitOrphan
       \/ \E n \in 1..MaxN : \E p \in Choices : Sampled(n, p) /\ InitQuery(n, p)
    /\ parsers = ParsersOf(cfg)
    /\ bands = in_bands
    /\ loc = [c \in Calls |-> [NoLocals EXCEPT !.task = IF c = 1 THEN "corr" ELSE "none"]]
    /\ pc = [c \in Calls |-> IF c = 1 THEN "corr_begin" ELSE "idle"]
    /\ cerr = <<>>

NextCorr == \E c \in Calls : CalcCorrelationsFromHamiltonian(c)

SpecCorr == InitCorr /\ [][NextCorr]_vars

\* ------------------------------------------------------------------------
\* two workers, one momentum point each
\* ------------------------------------------------------------------------

\* the momentum points of the two calls
ParQ(c) == IF c = 1 THEN IntVec(1, 2, 2) ELSE IntVec(3, 0, 4)

ParConfigs ==
    [m_temperature : {CInt(-1), CInt(1)},
     m_bose_cutoff : {<<1, 0, 2>>},
     m_phase_sign : {CInt(1)},
     m_magffact_formula : {"", "Q"},
     m_xtalB : {UnitMat(3)}]

\* the arguments of call c; ck is the kind of Cholesky factor of call 1
ParArgs(c, ck) ==
    [H_mat |-> HMat(2, IF c = 1 THEN 1 ELSE -1, IF c = 1 THEN -1 ELSE 1, c = 2),
     chol_mat |-> CholMat(IF c = 1 THEN ck ELSE "upper", 2),
     g_sign |-> GSign("metric", 2),
     Qvec |-> ParQ(c),
     evecs |-> EvecsOf(IF c = 1 THEN "unit" ELSE "reverse", 2)]

InitPar ==
    /\ sites = SitesOf("canted", 1)
    /\ cfg \in ParConfigs
    /\ parsers = ParsersOf(cfg)
    /\ \E ck \in {"unit", "singular"} : args = [c \in Calls |-> ParArgs(c, ck)]
    /\ in_bands = [c \in Calls |-> CallerBands("eigen", args[c].H_mat, args[c].evecs)]
    /\ bands = in_bands
    /\ loc = [c \in Calls |-> [NoLocals EXCEPT !.task = "both"]]
    /\ pc = [c \in Calls |-> "corr_begin"]
    /\ cerr = <<>>

NextPar ==
    \E c \in Calls :
        \/ CalcCorrelationsFromHamiltonian(c)
        \/ CalcIntensities(c)

SpecPar == InitPar /\ [][NextPar]_vars

\* ------------------------------------------------------------------------
\* properties of CalcIntensities
\* ------------------------------------------------------------------------

Done(c) == pc[c] = "done"

ZeroQ == IntVec(0, 0, 0)

IsHermitian(S) == \A i \in 1..3 : \A j \in 1..3 : S[i][j] = CConj(S[j][i])

Minor2(S, i, j) == CSub(CMul(S[i][i], S[j][j]), CMul(S[i][j], S[j][i]))

Det3(S) ==
    CAdd(CSub(CMul(S[1][1], CSub(CMul(S[2][2], S[3][3]), CMul(S[2][3], S[3][2]))),
              CMul(S[1][2], CSub(CMul(S[2][1], S[3][3]), CMul(S[2][3], S[3][1])))),
         CMul(S[1][3], CSub(CMul(S[2][1], S[3][2]), CMul(S[2][2], S[3][1]))))

\* hermitian with every principal minor non-negative
IsPosSemiDef(S) ==
    /\ IsHermitian(S)
    /\ \A i \in 1..3 : RLeq(CZero, S[i][i])
    /\ \A i \in 1..3 : \A j \in (i + 1)..3 : RLeq(CZero, Minor2(S, i, j))
    /\ RLeq(CZero, Det3(S))

\* the form factor a call with this configuration and momentum applies
FormFactorOf(c) ==
    CRe(EvalNoexcept(RegisterVar([expr |-> cfg.m_magffact_formula, Q |-> CZero],
                                 VecNorm(MatVec(cfg.m_xtalB, args[c].Qvec)))))

\* C4 (every hermitian tensor): after CalcIntensities, weight <= weight_full for every band
\* whose input tensor S is hermitian.
C4_WeightBoundedHermitian ==
    \A c \in Calls : \A k \in 1..Len(bands[c]) :
        (Done(c) /\ loc[c].task = "int" /\ IsHermitian(in_bands[c][k].S))
            => RLeq(bands[c][k].weight, bands[c][k].weight_full)

\* C4: after CalcIntensities with Q # 0, weight <= weight_full for
\* every band whose input tensor S is hermitian and positive semi-definite.
C4_WeightBoundedPosSemiDef ==
    \A c \in Calls : \A k \in 1..Len(bands[c]) :
        (Done(c) /\ loc[c].task = "int" /\ args[c].Qvec # ZeroQ
            /\ IsPosSemiDef(in_bands[c][k].S))
            => RLeq(bands[c][k].weight, bands[c][k].weight_full)

\* a finished call on a positive semi-definite tensor with off-diagonal
\* entries, weighted by the Bose and form factors, whose projection lost weight
C4_Witness ==
    /\ Done(1) /\ loc[1].task = "int" /\ args[1].Qvec = IntVec(1, 2, 2)
    /\ IsPosSemiDef(in_bands[1][1].S) /\ in_bands[1][1].S[1][2] # CZero
    /\ cfg.m_temperature = CInt(1) /\ cfg.m_magffact_formula = "Q"
    /\ RLess(CZero, bands[1][1].weight)
    /\ RLess(bands[1][1].weight, bands[1][1].weight_full)

\* C5 (whatever the form factor): with a negative temperature CalcIntensities leaves every
\* band's S equal to its input value.
C5_SUnchanged ==
    \A c \in Calls : \A k \in 1..Len(bands[c]) :
        (Done(c) /\ loc[c].task = "int" /\ RLess(cfg.m_temperature, CZero))
            => bands[c][k].S = in_bands[c][k].S

\* C5: with a negative temperature the Bose step is skipped: S is
\* its input value, multiplied by the form factor when a form-factor
\* expression is configured and unchanged when none is.
C5_BoseSkipped ==
    \A c \in Calls : \A k \in 1..Len(bands[c]) :
        (Done(c) /\ loc[c].task = "int" /\ RLess(cfg.m_temperature, CZero))
            => bands[c][k].S =
                   IF cfg.m_magffact_formula = "" THEN in_bands[c][k].S
                   ELSE MatScale(in_bands[c][k].S, FormFactorOf(c))

\* a finished call at negative temperature, without form factor, on two
\* bands with non-zero tensors and energies for which the Bose factor is not 1
C5_Witness ==
    /\ Done(1) /\ loc[1].task = "int" /\ cfg.m_temperature = CInt(-1)
    /\ cfg.m_magffact_formula = ""
    /\ Len(bands[1]) = 2
    /\ \A k \in 1..2 :
        /\ bands[1][k].S # ZeroMat(3, 3)
        /\ BoseCutoff(bands[1][k].E, CInt(1), cfg.m_bose_cutoff) # COne
        /\ bands[1][k].S = in_bands[1][k].S

\* C8: for Q # 0 the emitted S_perp = P S P is a fixed point of the
\* projection: P (P S P) P = P S P, for every input tensor S.
C8_ProjectionIdempotent ==
    \A c \in Calls : \A k \in 1..Len(bands[c]) :
        (Done(c) /\ loc[c].task = "int" /\ args[c].Qvec # ZeroQ)
            => LET P == OrthoProjector(args[c].Qvec)
               IN  MatMul(MatMul(P, bands[c][k].S_perp), P) = bands[c][k].S_perp

\* a finished call on a non-hermitian tensor with an oblique Q, where the
\* projection changed the tensor and did not annihilate it
C8_Witness ==
    /\ Done(1) /\ loc[1].task = "int" /\ args[1].Qvec = IntVec(1, 2, 2)
    /\ ~IsHermitian(in_bands[1][1].S)
    /\ bands[1][1].S_perp # bands[1][1].S
    /\ bands[1][1].S_perp # ZeroMat(3, 3)

\* ------------------------------------------------------------------------
\* properties of CalcCorrelationsFromHamiltonian
\* ------------------------------------------------------------------------

\* the call has passed the energy sort and the new band list exists
Sorted(c) == pc[c] \in {"corr_inv", "corr_acc", "done"}

\* v^dagger H v
QuadForm(v, H) == Inner(MkSeq(LAMBDA i : CConj(v[i]), Len(v)), MatVec(H, v))

\* C1: with no magnetic sites the routine returns with the band list as the
\* caller provided it (no band added, removed, reordered or changed) and
\* writes no diagnostic.
C1_NoSitesNoOp ==
    \A c \in Calls :
        (N = 0 /\ Done(c)) => (bands[c] = in_bands[c] /\ cerr = <<>>)

C1_Witness ==
    N = 0 /\ Done(1) /\ Len(in_bands[1]) = 2 /\ in_bands[1][1].S = StaleTensor

\* C2: for N >= 1 the energy of band i is Re(v^dagger H v) of the eigenvector
\* the energy sort put in place i: a function of H, the eigenvectors and the
\* sorting alone, whatever g_sign is and whatever energies the caller stored.
C2_EnergiesFromTransform ==
    \A c \in Calls :
        (N >= 1 /\ Sorted(c)) =>
            /\ Len(bands[c]) = Len(args[c].evecs)
            /\ \A i \in 1..Len(bands[c]) :
                   bands[c][i].E =
                       CRe(QuadForm(args[c].evecs[loc[c].sorting[i]], args[c].H_mat))

C2_Witness ==
    /\ N >= 1 /\ Done(1)
    /\ args[1].g_sign # UnitMat(2 * N)
    /\ \E i \in 1..Len(bands[1]) :
           /\ RLess(bands[1][i].E, CZero)
           /\ bands[1][i].E # in_bands[1][loc[1].sorting[i]].E

\* entry (a, b) of M for components x, y, by the quadrant it lies in
QuadrantEntry(a, b, x, y, Qvec) ==
    LET i == IF a <= N THEN a ELSE a - N
        j == IF b <= N THEN b ELSE b - N
        pre == PreFactor(sites[i], sites[j], Qvec)
        u_i == sites[i].ge_trafo_plane_calc[x]
        uc_i == sites[i].ge_trafo_plane_conj_calc[x]
        u_j == sites[j].ge_trafo_plane_calc[y]
        uc_j == sites[j].ge_trafo_plane_conj_calc[y]
    IN  CASE a <= N /\ b <= N -> CMul(CMul(pre, u_i), uc_j)
          [] a <= N /\ b > N -> CMul(CMul(pre, u_i), u_j)
          [] a > N /\ b <= N -> CMul(CMul(pre, uc_i), uc_j)
          [] a > N /\ b > N -> CMul(CMul(pre, uc_i), u_j)

QuadrantMatrix(x, y, Qvec) ==
    MkMat(LAMBDA a, b : QuadrantEntry(a, b, x, y, Qvec), 2 * N, 2 * N)

\* (T^dagger M T)(k, k)
DiagOfTrafo(T, M, k) ==
    QuadForm(MkSeq(LAMBDA a : T[a][k], Size1(T)), M)

\* every band's tensors are those the transformation T gives
TensorsFrom(bl, T, Qvec) ==
    /\ \A x \in 1..3 : \A y \in 1..3 :
           Let(QuadrantMatrix(x, y, Qvec), LAMBDA M :
               \A k \in 1..Len(bl) :
                   bl[k].S[x][y] = CDiv(DiagOfTrafo(T, M, k), CInt(2 * N)))
    /\ \A k \in 1..Len(bl) : bl[k].S_perp = ZeroMat(3, 3)

\* C10: for N >= 1 every band k has S_k(x,y) = (T^dagger M_xy T)(k,k) / (2N)
\* for all nine pairs, M_xy made of its four quadrants, and S_perp = 0,
\* whatever tensors the band list held on entry.
C10_TensorPerBand ==
    \A c \in Calls :
        (N >= 1 /\ Done(c)) =>
            /\ Len(bands[c]) = 2 * N
            /\ TensorsFrom(bands[c], loc[c].trafo, args[c].Qvec)

C10_Witness ==
    /\ N >= 2 /\ Done(1)
    /\ in_bands[1][1].S = StaleTensor
    /\ \E k \in 1..Len(bands[1]) :
           /\ bands[1][k].S[1][2] # CZero
           /\ bands[1][k].S[1][2] # bands[1][k].S[2][1]

\* the sum over the bands of S(x, y)
BandSum(bl, x, y) == SumTo([k \in 1..Len(bl) |-> bl[k].S[x][y]], Len(bl))

\* T^dagger H T = diag(E) for the emitted energies E
ValidPair(c) ==
    MatMul(MatMul(Herm(loc[c].trafo), args[c].H_mat), loc[c].trafo)
        = MkMat(LAMBDA i, j : IF i = j THEN bands[c][i].E ELSE CZero, 2 * N, 2 * N)

\* trace(A B)
TraceOfProduct(A, B) ==
    SumTo([a \in 1..Size1(A) |->
              SumTo([b \in 1..Size2(A) |-> CMul(A[a][b], B[b][a])], Size2(A))],
          Size1(A))

\* T T^dagger = 1
IsUnitary(T) == MatMul(T, Herm(T)) = UnitMat(Size1(T))

\* C3 (every valid pair): whenever T^dagger H T = diag(E), the tensors summed over
\* the bands equal trace(M_xy) / (2N) for every pair (x, y).
C3_SumRuleValidPair ==
    \A c \in Calls :
        (N >= 1 /\ Done(c) /\ ValidPair(c)) =>
            \A x \in 1..3 : \A y \in 1..3 :
                BandSum(bands[c], x, y)
                    = CDiv(Trace(QuadrantMatrix(x, y, args[c].Qvec)), CInt(2 * N))

\* C3: the tensors summed over the bands equal trace(M_xy T T^dagger) / (2N)
\* for every pair (x, y); this is trace(M_xy) / (2N) when T T^dagger = 1.
C3_SumRuleUnitary ==
    \A c \in Calls :
        (N >= 1 /\ Done(c)) =>
            Let(MatMul(loc[c].trafo, Herm(loc[c].trafo)), LAMBDA TT :
                \A x \in 1..3 : \A y \in 1..3 :
                    Let(QuadrantMatrix(x, y, args[c].Qvec), LAMBDA M :
                        /\ BandSum(bands[c], x, y)
                               = CDiv(TraceOfProduct(M, TT), CInt(2 * N))
                        /\ TT = UnitMat(2 * N) =>
                               BandSum(bands[c], x, y) = CDiv(Trace(M), CInt(2 * N))))

C3_Witness ==
    /\ N >= 1 /\ Done(1)
    /\ IsUnitary(loc[1].trafo)
    /\ loc[1].trafo # UnitMat(2 * N)
    /\ BandSum(bands[1], 1, 1) # CZero

\* C6: a failed inversion writes one diagnostic naming Q and the routine goes
\* on with the inverse it got: the band list is complete, with the recomputed
\* energies and the tensors accumulated from that inverse; a successful
\* inversion writes nothing.
C6_WarnAndContinue ==
    \A c \in Calls :
        (N >= 1 /\ Done(c)) =>
            IF loc[c].inv_ok THEN cerr = <<>>
            ELSE /\ cerr = <<InversionWarning(args[c].Qvec)>>
                 /\ Len(bands[c]) = 2 * N
                 /\ \A i \in 1..Len(bands[c]) :
                        bands[c][i].E = CRe(loc[c].energy_mat[i][i])
                 /\ loc[c].trafo =
                        Trafo(loc[c].chol_inv, loc[c].evec_mat, loc[c].E_sqrt)
                 /\ \A x \in 1..3 : \A y \in 1..3 :
                        Let(CouplingMatrix(x, y, args[c].Qvec), LAMBDA M :
                            \A k \in 1..Len(bands[c]) :
                                bands[c][k].S[x][y] =
                                    CDiv(DiagOfTrafo(loc[c].trafo, M, k), CInt(2 * N)))

C6_Witness ==
    /\ N >= 1 /\ Done(1)
    /\ ~loc[1].inv_ok
    /\ loc[1].chol_inv = UnitMat(2 * N)
    /\ Len(cerr) = 1 /\ cerr[1].Q = args[1].Qvec /\ cerr[1].Q # ZeroQ
    /\ \E k \in 1..Len(bands[1]) : bands[1][k].S # ZeroMat(3, 3)

\* the energies of a band list, place by place, do not increase
Descending(bl) ==
    \A i \in 1..(Len(bl) - 1) : RLeq(bl[i + 1].E, bl[i].E)

\* the caller's energies are those of its eigenvectors
CallerConsistent(c) ==
    \A k \in 1..Len(in_bands[c]) :
        in_bands[c][k].E = CRe(QuadForm(args[c].evecs[k], args[c].H_mat))

\* C7 (whatever the caller's energies): for N >= 1 the emitted energies are in descending order.
C7_EmittedDescending ==
    \A c \in Calls : (N >= 1 /\ Sorted(c)) => Descending(bands[c])

\* C7: for N >= 1 the order is a permutation of the band indices, each used
\* once, that puts the caller's energies in non-increasing order; the emitted
\* energies are in descending order when the caller's energies are those of
\* its eigenvectors.
C7_SortedByCallerEnergies ==
    \A c \in Calls :
        (N >= 1 /\ Sorted(c)) =>
            /\ Len(loc[c].sorting) = Len(in_bands[c])
            /\ {loc[c].sorting[i] : i \in 1..Len(loc[c].sorting)} = 1..Len(in_bands[c])
            /\ Descending(Reorder(in_bands[c], loc[c].sorting))
            /\ CallerConsistent(c) => Descending(bands[c])

C7_Witness ==
    /\ N >= 1 /\ Done(1)
    /\ CallerConsistent(1)
    /\ \E i, j \in 1..Len(bands[1]) :
           /\ i < j
           /\ in_bands[1][loc[1].sorting[i]].E = in_bands[1][loc[1].sorting[j]].E
           /\ loc[1].sorting[i] > loc[1].sorting[j]
    /\ \E i \in 1..(Len(bands[1]) - 1) : RLess(bands[1][i + 1].E, bands[1][i].E)

\* ------------------------------------------------------------------------
\* properties of calls running in parallel
\* ------------------------------------------------------------------------

\* the band list CalcCorrelationsFromHamiltonian leaves when call c runs alone
\* (with the sorting and the inverse call c got)
CorrAlone(c) ==
    LET evec_mat == CreateFromCols(Reorder(args[c].evecs, loc[c].sorting))
        energy_mat == EnergyMat(evec_mat, args[c].H_mat)
        trafo == Trafo(loc[c].chol_inv, evec_mat, ESqrt(args[c].g_sign, energy_mat))
    IN  AccumulateFrom(RecreateBands(energy_mat), trafo, 0, args[c].Qvec)

\* the form factor call c evaluates when no other call runs
FormFactorAlone(c) ==
    CRe(EvalNoexcept(RegisterVar(ParsersOf(cfg).member,
                                 VecNorm(MatVec(cfg.m_xtalB, args[c].Qvec)))))

\* the band CalcIntensities makes of band b when call c runs alone
IntAlone(b, c) ==
    LET bose == IF RLeq(CZero, cfg.m_temperature)
                THEN MatScale(b.S, BoseCutoff(b.E, cfg.m_temperature, cfg.m_bose_cutoff))
                ELSE b.S
        ff == IF cfg.m_magffact_formula # ""
              THEN MatScale(bose, FormFactorAlone(c))
              ELSE bose
    IN  BandProjected([b EXCEPT !.S = ff], OrthoProjector(args[c].Qvec))

\* the band list of call c when the two routines run one after the other
\* with no other call in between
SequentialBands(c) ==
    Let(CorrAlone(c), LAMBDA bl : MkSeq(LAMBDA k : IntAlone(bl[k], c), Len(bl)))

\* C9: two calls for different momentum points, each on its own band list,
\* interleaved in any way, leave the band lists they leave when run one after
\* the other, and the shared form-factor parser is never written.
C9_ParallelAsSequential ==
    /\ parsers.member = ParsersOf(cfg).member
    /\ \A c \in Calls : Done(c) => bands[c] = SequentialBands(c)

C9_Witness ==
    /\ Done(1) /\ pc[2] = "int_eval" /\ loc[2].bi = 1
    /\ cfg.m_magffact_formula = "Q"
    /\ parsers.local[1].Q # parsers.local[2].Q
    /\ \E k \in 1..Len(bands[1]) : bands[1][k].weight # CZero

====
